---- MODULE Spec2Model ----
(***************************************************************************)
(* Verification model of noequalindi/computing_algorithms:                 *)
(*   tp2/tp2_closest_pair.py      closest pair of points (divide&conquer)  *)
(*   tp3/tp3_needleman_wunsch.py  global alignment (score matrix + trace)  *)
(*   tp1/tp1_run_tm.py            two-tape Turing machine runner           *)
(*                                                                         *)
(* Three specifications share the module: SpecCP, SpecNW and SpecTM.  Each *)
(* drives one program; the variables of the other two keep their initial   *)
(* values.                                                                 *)
(***************************************************************************)
EXTENDS Integers, Sequences, FiniteSets, TLC

VARIABLES
    \* tp2: closest pair
    input,      \* the list handed to closest_pair / brute_force
    cp_pc,      \* "ready" | "returned" | "raised" | "bf_returned" | "bf_raised"
    px, py,     \* the two presorted views built by closest_pair (lines 65-66)
    res,        \* the (d, pair) returned by the last call
    calls,      \* one record per invocation of __closest_pair_rec of the last call
    \* tp3: Needleman-Wunsch
    s1, s2,     \* the two sequences
    nw_pc,      \* "ready" | "returned"
    nw_out,     \* (F, aligned_s1, aligned_s2, final_score)
    \* tp1: Turing machine
    delta, final_states, initial_state,
    state, t1, t2, h1, h2, steps,
    max_steps,  \* argument of the running run()
    tm_pc,      \* "constructed" | "loaded" | "running" | "returned" | "raised"
    step_ret,   \* outcome of the last step(): "none" | "true" | "false" | "raised"
    applied,    \* ghost: transitions applied since load
    run_applied \* ghost: transitions applied by the running run()

cpvars == <<input, cp_pc, px, py, res, calls>>
nwvars == <<s1, s2, nw_pc, nw_out>>
tmvars == <<delta, final_states, initial_state, state, t1, t2, h1, h2, steps,
            max_steps, tm_pc, step_ret, applied, run_applied>>
vars == <<cpvars, nwvars, tmvars>>

-----------------------------------------------------------------------------
(* Bounds *)

MaxX == 1
MaxPts == 7
MaxPermLen == 4

-----------------------------------------------------------------------------
(* tp2: points and distance *)

\* the y coordinates points are drawn from: unevenly spaced rows
YCoords == {0, 2, 3}

\* Point(x, y): the coordinates are small naturals here.
Point == [x : 0..MaxX, y : YCoords]

\* float("inf"); every finite distance is compared against it through Lt/Leq.
Inf == -1

\* a < b and a <= b on distances, one of which may be float("inf")
Lt(a, b) == a # Inf /\ (b = Inf \/ a < b)
Leq(a, b) == b = Inf \/ (a # Inf /\ a <= b)

\* dist(p, q) = math.hypot(dx, dy).  A distance is represented by its square
\* dx*dx + dy*dy: on integer coordinates hypot is strictly increasing in that
\* value, so every comparison and every equality of distances is preserved.
dist(p, q) ==
    LET dx == p.x - q.x
        dy == p.y - q.y
    IN  dx * dx + dy * dy

\* abs(v) < d for a distance d in the squared representation
AbsLt(v, d) == Lt(v * v, d)

\* p's sort key is not greater than q's: key (x, y) of line 65 when by_x,
\* key (y, x) of line 66 otherwise
KeyLeq(by_x, p, q) ==
    IF by_x THEN p.x < q.x \/ (p.x = q.x /\ p.y <= q.y)
    ELSE p.y < q.y \/ (p.y = q.y /\ p.x <= q.x)

\* sorted(points, key=...): a stable insertion of each element, in input
\* order, behind every element whose key is not greater.
RECURSIVE InsertSorted(_, _, _)
InsertSorted(s, p, by_x) ==
    IF s = <<>> THEN <<p>>
    ELSE IF KeyLeq(by_x, s[Len(s)], p) THEN Append(s, p)
    ELSE Append(InsertSorted(SubSeq(s, 1, Len(s) - 1), p, by_x), s[Len(s)])

RECURSIVE SortFrom(_, _, _, _)
SortFrom(points, k, acc, by_x) ==
    IF k > Len(points) THEN acc
    ELSE SortFrom(points, k + 1, InsertSorted(acc, points[k], by_x), by_x)

\* mutant: px is left in input order
sorted_x_unsorted(points) == points

sorted_x(points) == SortFrom(points, 1, <<>>, TRUE)
sorted_y(points) == SortFrom(points, 1, <<>>, FALSE)

-----------------------------------------------------------------------------
(* tp2: brute_force *)

\* the two nested loops of brute_force, positions 1-based; (i, j) is the next
\* pair to compare
RECURSIVE BFLoop(_, _, _, _, _)
BFLoop(points, i, j, best, pair) ==
    LET n == Len(points) IN
    IF i > n THEN [d |-> best, pair |-> pair]
    ELSE IF j > n THEN BFLoop(points, i + 1, i + 2, best, pair)
    ELSE LET d == dist(points[i], points[j]) IN
         IF Lt(d, best)
         THEN BFLoop(points, i, j + 1, d, <<points[i], points[j]>>)
         ELSE BFLoop(points, i, j + 1, best, pair)

\* mutant: the inner loop starts at i instead of i + 1
brute_force_from_i(points) ==
    BFLoop(points, 1, 1, Inf, <<points[1], points[1]>>)

\* brute_force(points) for a non-empty list (points[0] raises on an empty one)
brute_force(points) ==
    BFLoop(points, 1, 2, Inf, <<points[1], points[1]>>)

-----------------------------------------------------------------------------
(* tp2: __closest_pair_rec *)

\* mutant: the split leaves a single point on the left
MidOf_one(n) == 1

\* mid = n // 2
MidOf(n) == n \div 2

\* p in Qset, where Qset = set(Qx): membership is by value
InQset(p, Qx) == \E k \in 1..Len(Qx) : Qx[k] = p

PartitionLeft(Py, Qx) == SelectSeq(Py, LAMBDA p : InQset(p, Qx))
PartitionRight(Py, Qx) == SelectSeq(Py, LAMBDA p : ~InQset(p, Qx))

\* mutant: the strip keeps the points left of the split line only
StripOf_left_only(Py, midx, d) ==
    SelectSeq(Py, LAMBDA p : p.x <= midx /\ AbsLt(p.x - midx, d))

\* strip = [p for p in py if abs(p.x - midx) < d]
StripOf(Py, midx, d) == SelectSeq(Py, LAMBDA p : AbsLt(p.x - midx, d))

\* how many successors the strip scan looks at: range(i + 1, min(i + 8, m))
StripSpan == 7

\* the strip loops, positions 1-based; (i, j) is the next pair to compare
RECURSIVE StripLoop(_, _, _, _, _)
StripLoop(strip, i, j, d, best_pair) ==
    LET m == Len(strip)
        last == IF i + StripSpan < m THEN i + StripSpan ELSE m
    IN  IF i > m THEN [d |-> d, pair |-> best_pair]
        ELSE IF j > last THEN StripLoop(strip, i + 1, i + 2, d, best_pair)
        ELSE LET dd == dist(strip[i], strip[j]) IN
             IF Lt(dd, d)
             THEN StripLoop(strip, i, j + 1, dd, <<strip[i], strip[j]>>)
             ELSE StripLoop(strip, i, j + 1, d, best_pair)

\* __closest_pair_rec(px, py).  Beside (d, pair) the result carries `calls',
\* one record for this invocation and for each one below it.
RECURSIVE _closest_pair_rec(_, _)
_closest_pair_rec(Px, Py) ==
    LET n == Len(Px) IN
    IF n <= 3
    THEN LET r == brute_force(Px) IN
         [d |-> r.d, pair |-> r.pair,
          calls |-> {[px |-> Px, py |-> Py, leaf |-> TRUE,
                      Qx |-> <<>>, Rx |-> <<>>, Qy |-> <<>>, Ry |-> <<>>,
                      d |-> r.d, pair |-> r.pair]}]
    ELSE LET mid == MidOf(n)
             Qx == SubSeq(Px, 1, mid)
             Rx == SubSeq(Px, mid + 1, n)
             midx == Qx[Len(Qx)].x
             Qy == PartitionLeft(Py, Qx)
             Ry == PartitionRight(Py, Qx)
             L == _closest_pair_rec(Qx, Qy)
             R == _closest_pair_rec(Rx, Ry)
             d0 == IF Leq(L.d, R.d) THEN L.d ELSE R.d
             pair0 == IF Leq(L.d, R.d) THEN L.pair ELSE R.pair
             strip == StripOf(Py, midx, d0)
             out == StripLoop(strip, 1, 2, d0, pair0)
         IN  [d |-> out.d, pair |-> out.pair,
              calls |-> L.calls \cup R.calls \cup
                        {[px |-> Px, py |-> Py, leaf |-> FALSE,
                          Qx |-> Qx, Rx |-> Rx, Qy |-> Qy, Ry |-> Ry,
                          d |-> out.d, pair |-> out.pair]}]

-----------------------------------------------------------------------------
(* tp2: operations *)

NoResult == [d |-> Inf, pair |-> <<>>]

\* before any call: no points yet
CPInit ==
    /\ input = <<>>
    /\ cp_pc = "ready"
    /\ px = <<>>
    /\ py = <<>>
    /\ res = NoResult
    /\ calls = {}

\* pts.append(Point(...)): the caller builds the list point by point.  The
\* points come in (x, y) order, one arrangement of every multiset; the other
\* arrangements of short lists are reached by closest_pair_permuted.
add_point ==
    /\ cp_pc = "ready"
    /\ Len(input) < MaxPts
    /\ \E p \in Point :
         /\ IF input = <<>> THEN TRUE ELSE KeyLeq(TRUE, input[Len(input)], p)
         /\ input' = Append(input, p)
    /\ UNCHANGED <<cp_pc, px, py, res, calls>>
    /\ UNCHANGED <<nwvars, tmvars>>

\* mutant: a single point passes the validation
TooFew_empty_only(points) == Len(points) < 1

\* the validation of closest_pair: len(points) < 2
TooFew(points) == Len(points) < 2

\* closest_pair(points)
closest_pair ==
    /\ cp_pc = "ready"
    /\ IF TooFew(input)
       THEN /\ cp_pc' = "raised"
            /\ UNCHANGED <<px, py, res, calls>>
       ELSE LET sx == sorted_x(input)
                sy == sorted_y(input)
                r == _closest_pair_rec(sx, sy)
            IN  /\ px' = sx
                /\ py' = sy
                /\ res' = [d |-> r.d, pair |-> r.pair]
                /\ calls' = r.calls
                /\ cp_pc' = "returned"
    /\ UNCHANGED input
    /\ UNCHANGED <<nwvars, tmvars>>

\* the same points handed to closest_pair again in another order: positions
\* k and k+1 exchanged
Swap(s, k) == [i \in 1..Len(s) |->
                 IF i = k THEN s[k + 1] ELSE IF i = k + 1 THEN s[k] ELSE s[i]]

closest_pair_permuted ==
    /\ cp_pc = "returned"
    /\ Len(input) <= MaxPermLen
    /\ \E k \in 1..(Len(input) - 1) :
         LET pts == Swap(input, k)
             sx == sorted_x(pts)
             sy == sorted_y(pts)
             r == _closest_pair_rec(sx, sy)
         IN  /\ pts # input
             /\ input' = pts
             /\ px' = sx
             /\ py' = sy
             /\ res' = [d |-> r.d, pair |-> r.pair]
             /\ calls' = r.calls
    /\ UNCHANGED cp_pc
    /\ UNCHANGED <<nwvars, tmvars>>

\* brute_force(points) called on its own, as the base case's caller or a
\* test oracle would, with at most 3 points
brute_force_call ==
    /\ cp_pc = "ready"
    /\ Len(input) <= 3
    /\ IF Len(input) = 0
       THEN cp_pc' = "bf_raised" /\ UNCHANGED res
       ELSE cp_pc' = "bf_returned" /\ res' = brute_force(input)
    /\ UNCHANGED <<input, px, py, calls>>
    /\ UNCHANGED <<nwvars, tmvars>>

-----------------------------------------------------------------------------
(* tp3: Needleman-Wunsch *)

MaxLen == 3

\* NWConfig(match=1, mismatch=-1, gap=-2)
Match == 1
Mismatch == -1
Gap == -2

GapChar == "-"
Alphabet == {"A", "C", GapChar}

\* a str is a sequence of one-character strings
Strings == UNION {[1..n -> Alphabet] : n \in 0..MaxLen}

\* score(a, b, cfg)
score(a, b) == IF a = b THEN Match ELSE Mismatch

Max3(a, b, c) ==
    IF a >= b /\ a >= c THEN a ELSE IF b >= c THEN b ELSE c

\* F = [[0] * (m + 1) for _ in range(n + 1)]
ZeroMatrix(n, m) == [i \in 0..n |-> [j \in 0..m |-> 0]]

\* for i in range(1, n + 1): F[i][0] = F[i - 1][0] + cfg.gap
RECURSIVE InitColumn(_, _, _)
InitColumn(F, i, n) ==
    IF i > n THEN F
    ELSE InitColumn([F EXCEPT ![i][0] = F[i - 1][0] + Gap], i + 1, n)

\* for j in range(1, m + 1): F[0][j] = F[0][j - 1] + cfg.gap
RECURSIVE InitRow(_, _, _)
InitRow(F, j, m) ==
    IF j > m THEN F
    ELSE InitRow([F EXCEPT ![0][j] = F[0][j - 1] + Gap], j + 1, m)

\* mutant: the fill loop forgets the gap in s1
CellValue_no_left(F, a, b, i, j) ==
    LET diag == F[i - 1][j - 1] + score(a[i], b[j])
        up == F[i - 1][j] + Gap
    IN  Max3(diag, up, up)

\* what the fill loop stores in F[i][j]
CellValue(F, a, b, i, j) ==
    LET diag == F[i - 1][j - 1] + score(a[i], b[j])
        up == F[i - 1][j] + Gap
        left == F[i][j - 1] + Gap
    IN  Max3(diag, up, left)

\* the two nested fill loops; (i, j) is the next cell to fill
RECURSIVE FillMatrix(_, _, _, _, _)
FillMatrix(F, a, b, i, j) ==
    IF i > Len(a) THEN F
    ELSE IF j > Len(b) THEN FillMatrix(F, a, b, i + 1, 1)
    ELSE FillMatrix([F EXCEPT ![i][j] = CellValue(F, a, b, i, j)], a, b, i, j + 1)

\* which way one iteration of the traceback loop goes at (i, j):
\* diag first, then up, then left
TraceMove(F, a, b, i, j) ==
    IF i > 0 /\ j > 0 /\ F[i][j] = F[i - 1][j - 1] + score(a[i], b[j]) THEN "diag"
    ELSE IF i > 0 /\ F[i][j] = F[i - 1][j] + Gap THEN "up"
    ELSE "left"

\* the traceback loop; a1 and a2 are built back to front
RECURSIVE Traceback(_, _, _, _, _, _, _)
Traceback(F, a, b, i, j, a1, a2) ==
    IF ~(i > 0 \/ j > 0) THEN [a1 |-> a1, a2 |-> a2]
    ELSE LET mv == TraceMove(F, a, b, i, j) IN
         IF mv = "diag"
         THEN Traceback(F, a, b, i - 1, j - 1, Append(a1, a[i]), Append(a2, b[j]))
         ELSE IF mv = "up"
         THEN Traceback(F, a, b, i - 1, j, Append(a1, a[i]), Append(a2, GapChar))
         ELSE Traceback(F, a, b, i, j - 1, Append(a1, GapChar), Append(a2, b[j]))

\* list.reverse()
Reverse(s) == [k \in 1..Len(s) |-> s[Len(s) + 1 - k]]

\* needleman_wunsch(s1, s2, cfg)
needleman_wunsch(a, b) ==
    LET n == Len(a)
        m == Len(b)
        F0 == InitRow(InitColumn(ZeroMatrix(n, m), 1, n), 1, m)
        F == FillMatrix(F0, a, b, 1, 1)
        tb == Traceback(F, a, b, n, m, <<>>, <<>>)
    IN  [F |-> F, aligned_s1 |-> Reverse(tb.a1), aligned_s2 |-> Reverse(tb.a2),
         final_score |-> F[n][m]]

NoAlignment == [F |-> <<>>, aligned_s1 |-> <<>>, aligned_s2 |-> <<>>, final_score |-> 0]

NWInit ==
    /\ s1 \in Strings
    /\ s2 \in Strings
    /\ nw_pc = "ready"
    /\ nw_out = NoAlignment

\* run_pair(s1, s2, cfg): one call of needleman_wunsch
run_pair ==
    /\ nw_pc = "ready"
    /\ nw_out' = needleman_wunsch(s1, s2)
    /\ nw_pc' = "returned"
    /\ UNCHANGED <<s1, s2>>
    /\ UNCHANGED <<cpvars, tmvars>>

-----------------------------------------------------------------------------
(* tp1: two-tape Turing machine *)

MaxSteps == 3
MaxTapeLen == 1

BLANK == "_"
Symbols == {BLANK, "1"}
TMStates == {"q0", "qf"}

\* SparseTape(s): cell i holds s[i], positions from 0
SparseTape(s) == [i \in 0..(Len(s) - 1) |-> s[i + 1]]

\* SparseTape.read
TapeRead(t, i) == IF i \in DOMAIN t THEN t[i] ELSE BLANK

\* SparseTape.write: a blank removes the cell
TapeWrite(t, i, sym) ==
    IF sym = BLANK
    THEN [k \in (DOMAIN t) \ {i} |-> t[k]]
    ELSE [k \in (DOMAIN t) \cup {i} |-> IF k = i THEN sym ELSE t[k]]

\* -1 if m == "L" else 1 if m == "R" else 0
MoveOf(m) == IF m = "L" THEN -1 ELSE IF m = "R" THEN 1 ELSE 0

\* Transition(state, write, move): the transitions the tables are built from
Transitions ==
    { [state |-> "q0", write |-> <<"1", BLANK>>, move |-> <<"R", "L">>],
      [state |-> "q0", write |-> <<BLANK, BLANK>>, move |-> <<"L", "N">>],
      [state |-> "qf", write |-> <<BLANK, "1">>, move |-> <<"N", "R">>],
      [state |-> "qf", write |-> <<"1", "1">>, move |-> <<"N", "N">>] }

\* self.delta: a dict keyed by (state, symbol1, symbol2); a key may be absent
Keys == {"q0"} \X Symbols \X Symbols
Tables == UNION {[K -> Transitions] : K \in SUBSET Keys}

TapeInputs == UNION {[1..n -> {"1"}] : n \in 0..MaxTapeLen}

\* MultiTapeTM.__init__(spec)
TMInit ==
    /\ delta \in Tables
    /\ final_states \in {{"qf"}, {"q0", "qf"}}
    /\ initial_state = "q0"
    /\ state = initial_state
    /\ t1 = SparseTape(<<>>)
    /\ t2 = SparseTape(<<>>)
    /\ h1 = 0
    /\ h2 = 0
    /\ steps = 0
    /\ max_steps = 0
    /\ tm_pc = "constructed"
    /\ step_ret = "none"
    /\ applied = 0
    /\ run_applied = 0

\* MultiTapeTM.load(a, b)
load ==
    /\ tm_pc = "constructed"
    /\ \E a \in TapeInputs, b \in TapeInputs :
         /\ t1' = SparseTape(a)
         /\ t2' = SparseTape(b)
    /\ h1' = 0
    /\ h2' = 0
    /\ state' = initial_state
    /\ steps' = 0
    /\ applied' = 0
    /\ tm_pc' = "loaded"
    /\ UNCHANGED <<delta, final_states, initial_state, max_steps, step_ret,
                   run_applied>>
    /\ UNCHANGED <<cpvars, nwvars>>

\* key = (self.state, s1, s2)
StepKey == <<state, TapeRead(t1, h1), TapeRead(t2, h2)>>

\* the body of MultiTapeTM.step(); step_ret is what the call does: return
\* False, raise RuntimeError, or return True
step ==
    IF state \in final_states
    THEN /\ step_ret' = "false"
         /\ UNCHANGED <<state, t1, t2, h1, h2, steps, applied>>
    ELSE IF StepKey \notin DOMAIN delta
    THEN /\ step_ret' = "raised"
         /\ UNCHANGED <<state, t1, t2, h1, h2, steps, applied>>
    ELSE LET tr == delta[StepKey] IN
         /\ t1' = TapeWrite(t1, h1, tr.write[1])
         /\ t2' = TapeWrite(t2, h2, tr.write[2])
         /\ h1' = h1 + MoveOf(tr.move[1])
         /\ h2' = h2 + MoveOf(tr.move[2])
         /\ state' = tr.state
         /\ steps' = steps + 1
         /\ applied' = applied + 1
         /\ step_ret' = "true"

\* a client calls step() itself, before run() or after run() has returned
step_call ==
    /\ tm_pc \in {"loaded", "returned"}
    /\ steps < MaxSteps
    /\ step
    /\ UNCHANGED <<delta, final_states, initial_state, max_steps, tm_pc,
                   run_applied>>
    /\ UNCHANGED <<cpvars, nwvars>>

\* run(max_steps) is entered
run_enter ==
    /\ tm_pc = "loaded"
    /\ \E ms \in 0..MaxSteps : max_steps' = ms
    /\ tm_pc' = "running"
    /\ run_applied' = 0
    /\ UNCHANGED <<delta, final_states, initial_state, state, t1, t2, h1, h2,
                   steps, step_ret, applied>>
    /\ UNCHANGED <<cpvars, nwvars>>

\* mutant: run() returns without looking at the state
RunVerdict_unchecked(st) == "returned"

\* the check behind the loop of run(): raise unless the state is final
RunVerdict(st) == IF st \notin final_states THEN "raised" ELSE "returned"

\* one evaluation of `self.steps < max_steps and self.step()' that calls step()
run_iterate ==
    /\ tm_pc = "running"
    /\ steps < max_steps
    /\ step
    /\ tm_pc' = IF step_ret' = "true" THEN "running"
                ELSE IF step_ret' = "raised" THEN "raised"
                ELSE RunVerdict(state')
    /\ run_applied' = IF step_ret' = "true" THEN run_applied + 1 ELSE run_applied
    /\ UNCHANGED <<delta, final_states, initial_state, max_steps>>
    /\ UNCHANGED <<cpvars, nwvars>>

\* the loop condition fails on `self.steps < max_steps': step() is not called
run_exhausted ==
    /\ tm_pc = "running"
    /\ ~(steps < max_steps)
    /\ tm_pc' = RunVerdict(state)
    /\ UNCHANGED <<delta, final_states, initial_state, state, t1, t2, h1, h2,
                   steps, max_steps, step_ret, applied, run_applied>>
    /\ UNCHANGED <<cpvars, nwvars>>

-----------------------------------------------------------------------------
(* Specifications *)

\* a program that is not the one under study stays as constructed
CPIdle ==
    /\ input = <<>>
    /\ cp_pc = "ready"
    /\ px = <<>>
    /\ py = <<>>
    /\ res = NoResult
    /\ calls = {}

NWIdle ==
    /\ s1 = <<>>
    /\ s2 = <<>>
    /\ nw_pc = "ready"
    /\ nw_out = NoAlignment

TMIdle ==
    /\ delta = <<>>
    /\ final_states = {"qf"}
    /\ initial_state = "q0"
    /\ state = "q0"
    /\ t1 = <<>>
    /\ t2 = <<>>
    /\ h1 = 0
    /\ h2 = 0
    /\ steps = 0
    /\ max_steps = 0
    /\ tm_pc = "constructed"
    /\ step_ret = "none"
    /\ applied = 0
    /\ run_applied = 0

InitCP == CPInit /\ NWIdle /\ TMIdle
NextCP == add_point \/ closest_pair \/ closest_pair_permuted \/ brute_force_call
SpecCP == InitCP /\ [][NextCP]_vars

InitNW == CPIdle /\ NWInit /\ TMIdle
NextNW == run_pair
SpecNW == InitNW /\ [][NextNW]_vars

InitTM == CPIdle /\ NWIdle /\ TMInit
NextTM == load \/ step_call \/ run_enter \/ run_iterate \/ run_exhausted
SpecTM == InitTM /\ [][NextTM]_vars

-----------------------------------------------------------------------------
(* Properties of tp2 *)

\* how many positions of s hold p
RECURSIVE Count(_, _)
Count(p, s) ==
    IF s = <<>> THEN 0
    ELSE (IF Head(s) = p THEN 1 ELSE 0) + Count(p, Tail(s))

\* s and t hold the same points the same number of times
SameMultiset(s, t) == \A p \in Point : Count(p, s) = Count(p, t)

\* s is t with some positions left out
RECURSIVE IsSubsequence(_, _)
IsSubsequence(s, t) ==
    IF s = <<>> THEN TRUE
    ELSE IF t = <<>> THEN FALSE
    ELSE IF Head(s) = Head(t) THEN IsSubsequence(Tail(s), Tail(t))
    ELSE IsSubsequence(s, Tail(t))

\* the least distance over all pairs of different positions of s
MinPairDist(s) ==
    LET ds == {dist(s[i], s[j]) : <<i, j>> \in
                 {ij \in (1..Len(s)) \X (1..Len(s)) : ij[1] < ij[2]}}
    IN  CHOOSE d \in ds : \A e \in ds : d <= e

\* pair is made of the elements at two different positions of s, and d is
\* the distance between them
PairWithin(d, pair, s) ==
    /\ Len(pair) = 2
    /\ \E i, j \in 1..Len(s) : i # j /\ s[i] = pair[1] /\ s[j] = pair[2]
    /\ d = dist(pair[1], pair[2])

AllIdentical(s) == \A i \in 1..Len(s) : s[i] = s[1]

\* the record of the outermost call of _closest_pair_rec
RootCalls == {c \in calls : c.px = px /\ c.py = py}

\* C1: for every input of at least 2 points (duplicates and shared
\* coordinates included) the distance closest_pair returns is the minimum
\* pairwise distance brute_force computes over the whole input.
C1_MatchesBruteForce ==
    cp_pc = "returned" => res.d = brute_force(input).d

\* C1 witness: a returned call on 5 or more distinct points, some sharing x,
\* in which the strip scan of the outermost call improved on both halves.
C1_Witness ==
    /\ cp_pc = "returned"
    /\ Len(input) >= 5
    /\ res.d > 0
    /\ \E i, j \in 1..Len(input) : i # j /\ input[i].x = input[j].x
    /\ \E c \in RootCalls, l, r \in calls :
         /\ ~c.leaf
         /\ l.px = c.Qx /\ r.px = c.Rx
         /\ Lt(c.d, l.d) /\ Lt(c.d, r.d)
         /\ res.d = c.d

\* C2: closest_pair on an empty or one-point input raises and produces no
\* result, before any sorting or recursion; an input of 2 or more points
\* never raises.
C2_InvalidInput ==
    /\ cp_pc = "raised" =>
         /\ Len(input) < 2
         /\ res = NoResult /\ px = <<>> /\ py = <<>> /\ calls = {}
    /\ cp_pc = "returned" => Len(input) >= 2

\* C2 witness: the call on a single point has raised.
C2_Witness == cp_pc = "raised" /\ Len(input) = 1

\* C3: closest_pair returns the same distance on a permutation of an input
\* as on the input itself.
C3_PermutationInvariant ==
    [][(/\ cp_pc = "returned" /\ cp_pc' = "returned"
        /\ SameMultiset(input, input'))
       => res'.d = res.d]_vars

\* C3 witness: a returned call on 4 points that are not in x order, with a
\* positive minimum distance.
C3_Witness ==
    /\ cp_pc = "returned"
    /\ Len(input) = 4
    /\ input # sorted_x(input)
    /\ res.d > 0

\* C4: the returned pair is made of the elements at two different positions
\* of the input and the returned distance is the distance between them; when
\* all input points are identical the distance is 0 and both members are
\* that point.
C4_PairFromInput ==
    cp_pc = "returned" =>
        /\ PairWithin(res.d, res.pair, input)
        /\ AllIdentical(input) => res.d = 0 /\ res.pair = <<input[1], input[1]>>

\* C4 witness: a returned call on 5 or more identical points.
C4_Witness ==
    cp_pc = "returned" /\ Len(input) >= 5 /\ AllIdentical(input)

\* C5: brute_force on exactly 1 point is an error (no distance/pair result),
\* and on 2 or 3 points it returns the minimum pairwise distance with a pair
\* of two different positions achieving it.
C5_BruteForceSmall ==
    /\ cp_pc \in {"bf_returned", "bf_raised"} /\ Len(input) = 1
         => cp_pc = "bf_raised"
    /\ cp_pc \in {"bf_returned", "bf_raised"} /\ Len(input) \in {2, 3}
         => /\ cp_pc = "bf_returned"
            /\ res.d = MinPairDist(input)
            /\ PairWithin(res.d, res.pair, input)

\* C7: in every call of _closest_pair_rec that splits, Qy holds exactly the
\* elements of Qx and Ry exactly those of Rx, each in the relative order of
\* py, so that px and py of every call are views of the same points.
C7_PartitionMatches ==
    cp_pc = "returned" =>
        \A c \in calls :
            /\ SameMultiset(c.px, c.py)
            /\ ~c.leaf =>
                 /\ SameMultiset(c.Qy, c.Qx) /\ Len(c.Qy) = Len(c.Qx)
                 /\ SameMultiset(c.Ry, c.Rx) /\ Len(c.Ry) = Len(c.Rx)
                 /\ IsSubsequence(c.Qy, c.py)
                 /\ IsSubsequence(c.Ry, c.py)

\* C8: every call of _closest_pair_rec returns the minimum pairwise distance
\* of its own px, achieved by two elements at different positions of that px.
C8_SubproblemMinimum ==
    cp_pc = "returned" =>
        \A c \in calls :
            /\ c.d = MinPairDist(c.px)
            /\ \E i, j \in 1..Len(c.px) :
                 i # j /\ dist(c.px[i], c.px[j]) = c.d

\* C9: closest_pair returns on every input of at least 2 points; a call on
\* n > 3 points splits px at position n \div 2 whatever the coordinates, into
\* n \div 2 and n - n \div 2 points, both fewer than n and at least 2;
\* brute_force is reached with 2 or 3 points only; the recursion makes fewer
\* calls than there are points.
C9_Terminates ==
    /\ cp_pc \in {"returned", "raised"} /\ Len(input) >= 2 => cp_pc = "returned"
    /\ cp_pc = "returned" =>
        /\ RootCalls # {}
        /\ Cardinality(calls) < Len(input)
        /\ \A c \in calls :
             LET n == Len(c.px) IN
             /\ n >= 2
             /\ c.leaf <=> n <= 3
             /\ c.leaf => n \in {2, 3}
             /\ ~c.leaf =>
                  /\ c.Qx = SubSeq(c.px, 1, n \div 2)
                  /\ c.Rx = SubSeq(c.px, n \div 2 + 1, n)
                  /\ Len(c.Qx) = n \div 2 /\ Len(c.Rx) = n - n \div 2
                  /\ Len(c.Qx) < n /\ Len(c.Rx) < n
                  /\ \E l, r \in calls : l.px = c.Qx /\ r.px = c.Rx

\* C9 witness: a returned call on 7 or more identical points.
C9_Witness ==
    cp_pc = "returned" /\ Len(input) >= 7 /\ AllIdentical(input)

-----------------------------------------------------------------------------
(* Properties of tp3 *)

\* a with every '-' removed
Degap(a) == SelectSeq(a, LAMBDA c : c # GapChar)

HasGapChar(a) == \E k \in 1..Len(a) : a[k] = GapChar

\* the score of one column of an alignment
ColumnScore(c1, c2) ==
    IF c1 = GapChar \/ c2 = GapChar THEN Gap ELSE score(c1, c2)

RECURSIVE SumColumns(_, _, _)
SumColumns(a1, a2, k) ==
    IF k > Len(a1) \/ k > Len(a2) THEN 0
    ELSE ColumnScore(a1[k], a2[k]) + SumColumns(a1, a2, k + 1)

\* the scores of all global alignments of a[1..i] with b[1..j], by the last
\* column of the alignment: a pairing, a gap under a[i], or a gap over b[j]
RECURSIVE AlignmentScores(_, _, _, _)
AlignmentScores(a, b, i, j) ==
    IF i = 0 /\ j = 0 THEN {0}
    ELSE (IF i > 0 /\ j > 0
          THEN {x + score(a[i], b[j]) : x \in AlignmentScores(a, b, i - 1, j - 1)}
          ELSE {})
         \cup (IF i > 0
               THEN {x + Gap : x \in AlignmentScores(a, b, i - 1, j)}
               ELSE {})
         \cup (IF j > 0
               THEN {x + Gap : x \in AlignmentScores(a, b, i, j - 1)}
               ELSE {})

OptimalAlignmentReturned ==
    LET a1 == nw_out.aligned_s1
        a2 == nw_out.aligned_s2
    IN  /\ Degap(a1) = s1
        /\ Degap(a2) = s2
        /\ Len(a1) = Len(a2)
        /\ \A k \in 1..Len(a1) : ~(a1[k] = GapChar /\ a2[k] = GapChar)
        /\ nw_out.final_score = nw_out.F[Len(s1)][Len(s2)]
        /\ SumColumns(a1, a2, 1) = nw_out.final_score
        /\ \A x \in AlignmentScores(s1, s2, Len(s1), Len(s2)) :
             x <= nw_out.final_score

\* C6 as stated: for all strings s1 and s2 needleman_wunsch returns a valid
\* optimal global alignment (the aligned strings without '-' are s1 and s2,
\* equal lengths, no column of two '-', column scores sum to final_score =
\* F[n][m], no alignment scores higher).
C6_AllStrings ==
    nw_pc = "returned" => OptimalAlignmentReturned

\* C6 amended: the same for all strings s1 and s2 that do not contain '-'.
C6_GapFreeStrings ==
    nw_pc = "returned" /\ ~HasGapChar(s1) /\ ~HasGapChar(s2)
        => OptimalAlignmentReturned

\* C6 witness: a returned alignment of two '-'-free strings of different
\* lengths that holds a gap column and a mismatch column.
C6_Witness ==
    /\ nw_pc = "returned"
    /\ ~HasGapChar(s1) /\ ~HasGapChar(s2)
    /\ Len(s1) = 3 /\ Len(s2) = 2
    /\ \E k \in 1..Len(nw_out.aligned_s2) : nw_out.aligned_s2[k] = GapChar
    /\ \E k \in 1..Len(nw_out.aligned_s1) :
         /\ nw_out.aligned_s1[k] # GapChar
         /\ nw_out.aligned_s2[k] # GapChar
         /\ nw_out.aligned_s1[k] # nw_out.aligned_s2[k]

-----------------------------------------------------------------------------
(* Properties of tp1 *)

\* what a transition writes or moves
Machine == <<t1, t2, h1, h2, state, steps>>

\* a step of the model in which step() is called
StepCalled == step_call \/ run_iterate

C10_StateInvariant ==
    /\ tm_pc = "returned" => state \in final_states
    /\ tm_pc \in {"returned", "raised"} /\ state \notin final_states
         => tm_pc = "raised" /\ (step_ret = "raised" \/ steps >= max_steps)
    /\ tm_pc \in {"running", "returned", "raised"} => run_applied <= max_steps
    /\ tm_pc # "constructed" => steps = applied

C10_FinalStepIsIdle ==
    StepCalled /\ state \in final_states
        => step_ret' = "false" /\ UNCHANGED Machine

C10_UndefinedRaisesFirst ==
    StepCalled /\ state \notin final_states /\ StepKey \notin DOMAIN delta
        => /\ step_ret' = "raised"
           /\ UNCHANGED Machine
           /\ tm_pc = "running" => tm_pc' = "raised"

\* C10: run(max_steps) returns normally only in a final state, applies at most
\* max_steps transitions (steps counts the transitions applied since load),
\* and raises when no final state is reached within max_steps; in a final
\* state step() returns False and changes neither tapes, heads, state nor
\* steps; a step without a transition for (state, symbol1, symbol2) raises
\* before it writes or moves.
C10_RunAndStep ==
    /\ []C10_StateInvariant
    /\ [][C10_FinalStepIsIdle]_vars
    /\ [][C10_UndefinedRaisesFirst]_vars

\* C10 witness: run() has raised after applying exactly max_steps >= 2
\* transitions that wrote a tape, without reaching a final state.
C10_Witness ==
    /\ tm_pc = "raised"
    /\ step_ret = "true"
    /\ max_steps >= 2
    /\ run_applied = max_steps
    /\ DOMAIN t1 # {}

====
